---- MODULE Spec2Model ----
(***************************************************************************)
(* Model of scripts/preprocess.py: min-max scaling, the spectrogram/image  *)
(* codec, the activation masking engine, the two-layer deconvolution       *)
(* inverter and the tiling of a clip into squares.                         *)
(*                                                                         *)
(* Floating-point values are modelled as exact extended rationals          *)
(* <<n, d>>: d > 0 is the finite value n/d (in lowest terms), <<0, 0>> is  *)
(* NaN, <<1, 0>> is +Inf and <<-1, 0>> is -Inf.  Rounding of the binary    *)
(* floating-point format is not modelled.                                  *)
(***************************************************************************)
EXTENDS Integers, Sequences, FiniteSets, TLC

VARIABLES call, status, S, weights, filter_index, png_name, wav_name,
          ret, img, s_range, files, genre, trace

vars == <<call, status, S, weights, filter_index, png_name, wav_name,
          ret, img, s_range, files, genre, trace>>

MaxH == 2          \* rows of the spectrograms given to the image codec

(***************************************************************************)
(* Python's None and optional arguments: <<>> is None, <<x>> is a value.   *)
(***************************************************************************)
None == <<>>
Some(x) == <<x>>
IsNone(o) == o = <<>>
Val(o) == o[1]

(***************************************************************************)
(* Extended rational arithmetic standing for numpy float arithmetic.       *)
(***************************************************************************)
Abs(n) == IF n < 0 THEN -n ELSE n
Sign(n) == IF n < 0 THEN -1 ELSE IF n > 0 THEN 1 ELSE 0

RECURSIVE GCD(_, _)
GCD(a, b) == IF b = 0 THEN a ELSE GCD(b, a % b)

Norm(n, d) ==
    IF d = 0 THEN <<Sign(n), 0>>
    ELSE LET g == GCD(Abs(n), Abs(d))
         IN  <<(Sign(d) * n) \div g, Abs(d) \div g>>

F(n) == <<n, 1>>
NaN == <<0, 0>>
IsNaN(x) == x = NaN
IsFinite(x) == x[2] # 0

Mul(x, y) == Norm(x[1] * y[1], x[2] * y[2])
Recip(x) == IF x[1] = 0 THEN <<x[2], 0>> ELSE Norm(x[2] * Sign(x[1]), Abs(x[1]))
Div(x, y) == Mul(x, Recip(y))
Neg(x) == <<-x[1], x[2]>>
Add(x, y) ==
    IF IsNaN(x) \/ IsNaN(y) THEN NaN
    ELSE IF ~IsFinite(x) /\ ~IsFinite(y) THEN (IF x = y THEN x ELSE NaN)
    ELSE IF ~IsFinite(x) THEN x
    ELSE IF ~IsFinite(y) THEN y
    ELSE Norm(x[1] * y[2] + y[1] * x[2], x[2] * y[2])
Sub(x, y) == Add(x, Neg(y))
\* x <= y on values that are not NaN
Leq(x, y) ==
    IF ~IsFinite(x) /\ ~IsFinite(y) THEN x[1] <= y[1]
    ELSE IF ~IsFinite(x) THEN x[1] < 0
    ELSE IF ~IsFinite(y) THEN y[1] > 0
    ELSE x[1] * y[2] <= y[1] * x[2]

(***************************************************************************)
(* Two-dimensional arrays are sequences of rows.                           *)
(***************************************************************************)
\* f(v), with v evaluated once (a local variable of the source)
Bind(v, f(_)) == CHOOSE y \in {f(x) : x \in {v}} : TRUE

Rows(A) == Len(A)
Cols(A) == IF Len(A) = 0 THEN 0 ELSE Len(A[1])
Elems(A0) ==
    Bind(A0, LAMBDA A : UNION {{A[r][c] : c \in 1..Len(A[r])} : r \in 1..Len(A)})
Map(A0, f(_)) ==
    Bind(A0, LAMBDA A : [r \in 1..Len(A) |-> [c \in 1..Len(A[r]) |-> f(A[r][c])]])
\* the array left as it is where the source flips it
Flip0_Omitted(A0) == A0
\* np.flip(A, axis=0)
Flip0(A0) == Bind(A0, LAMBDA A : [r \in 1..Len(A) |-> A[Len(A) + 1 - r]])

\* ndarray.min() / ndarray.max(): NaN as soon as one element is NaN
ArrMin(A) ==
    Bind(Elems(A), LAMBDA E :
        IF NaN \in E THEN NaN ELSE CHOOSE a \in E : \A b \in E : Leq(a, b))
ArrMax(A) ==
    Bind(Elems(A), LAMBDA E :
        IF NaN \in E THEN NaN ELSE CHOOSE a \in E : \A b \in E : Leq(b, a))

minmax_scaling(A0, factor) ==
    Bind(A0, LAMBDA A :
    Bind(ArrMin(A), LAMBDA s_min :
    Bind(ArrMax(A), LAMBDA s_max :
        LET S_std(x) == Div(Sub(x, s_min), Sub(s_max, s_min))
            scaled(x) == Mul(S_std(x), F(factor))
        IN  Map(A, scaled))))

(***************************************************************************)
(* ndarray.astype(np.uint8) of one float: truncation toward zero, kept     *)
(* modulo 2^8.  The conversion of NaN or an infinity is undefined; `u' is  *)
(* the byte the build produces there.                                      *)
(***************************************************************************)
UndefCast == {0, 255}
astype_uint8(x, u) ==
    IF ~IsFinite(x) THEN u
    ELSE (Sign(x[1]) * (Abs(x[1]) \div x[2])) % 256

\* 255 - p in uint8 arithmetic
Invert(p) == (255 - p) % 256

\* the image computed by spectrogram_img (the file written is in the action)
spectrogram_img(A, u) ==
    LET cast(x) == astype_uint8(x, u)
    IN  Map(Flip0(Map(minmax_scaling(A, 255), cast)), Invert)

\* revert_to_spectro without the flip of line 149
revert_to_spectro_Unflipped(image, s_min, s_max) ==
    LET back(p) == Add(Mul(Div(F(p), F(255)), Sub(s_max, s_min)), s_min)
    IN  Map(Map(image, Invert), back)
revert_to_spectro(image, s_min, s_max) ==
    LET scaled == Flip0(Map(image, Invert))
        back(p) == Add(Mul(Div(F(p), F(255)), Sub(s_max, s_min)), s_min)
    IN  Map(scaled, back)

(***************************************************************************)
(* Tensors of the masking engine.  A kernel K has the layout of the        *)
(* source, (kh, kw, in channels, out channels): K[di][dj][ci][co].  The    *)
(* input S has one batch element and one channel and is kept as a matrix;  *)
(* an activation tensor is kept channel-major: conv[co] is the map of      *)
(* output channel co.                                                      *)
(***************************************************************************)
TileSize == 4      \* side of a tile: stands for the 128 of reshape(.., (128, 128))

KH(K) == Len(K)
KW(K) == Len(K[1])
InChannels(K) == Len(K[1][1])
OutChannels(K) == Len(K[1][1][1])

RECURSIVE SumSeq(_)
SumSeq(q) == IF q = <<>> THEN F(0) ELSE Add(Head(q), SumSeq(Tail(q)))

\* padding that repeats the nearest cell of the input instead of 0
Padded_Replicated(A, r, c) ==
    LET rr == IF r < 1 THEN 1 ELSE IF r > Rows(A) THEN Rows(A) ELSE r
        cc == IF c < 1 THEN 1 ELSE IF c > Cols(A) THEN Cols(A) ELSE c
    IN  A[rr][cc]
\* zero padding of "SAME": outside the input the value is 0
Padded(A, r, c) ==
    IF r >= 1 /\ r <= Rows(A) /\ c >= 1 /\ c <= Cols(A) THEN A[r][c] ELSE F(0)

\* tf.nn.conv2d(A, K, strides = (1,1), padding = "SAME"), output channel co,
\* for a one-channel input: a cross-correlation, (k - 1) \div 2 cells of
\* padding before and the rest after
conv2d(A0, K, co) ==
    Bind(A0, LAMBDA A :
    LET kh == KH(K)
        kw == KW(K)
        pt == (kh - 1) \div 2
        pl == (kw - 1) \div 2
        term(r, c, k) ==
            LET di == ((k - 1) \div kw) + 1
                dj == ((k - 1) % kw) + 1
            IN  Mul(Padded(A, r + di - 1 - pt, c + dj - 1 - pl), F(K[di][dj][1][co]))
    IN  [r \in 1..Rows(A) |-> [c \in 1..Cols(A) |->
            SumSeq([k \in 1..(kh * kw) |-> term(r, c, k)])]])

relu(x) == IF IsNaN(x) THEN NaN ELSE IF Leq(x, F(0)) THEN F(0) ELSE x

\* tf.nn.relu(tf.nn.bias_add(conv2d(S, K), bias)), output channel co
Activation(A, K, bias, co) ==
    LET act(x) == relu(Add(x, F(bias[co])))
    IN  Map(conv2d(A, K, co), act)

\* np.reshape(A, (h, w)) of a matrix, in row-major order
CanReshape(A, h, w) == Rows(A) * Cols(A) = h * w
Reshape(A0, h, w) ==
    Bind(A0, LAMBDA A :
    LET flat(k) == A[((k - 1) \div Cols(A)) + 1][((k - 1) % Cols(A)) + 1]
    IN  [r \in 1..h |-> [c \in 1..w |-> flat((r - 1) * w + c)]])

\* np.multiply(A, B) on arrays of one shape
SameShape(A, B) == Rows(A) = Rows(B) /\ Cols(A) = Cols(B)
Multiply(A0, B0) ==
    Bind(A0, LAMBDA A :
    Bind(B0, LAMBDA B :
        [r \in 1..Rows(A) |-> [c \in 1..Cols(A) |-> Mul(A[r][c], B[r][c])]]))

\* Python sequence indexing q[k], k counted from 0, negative from the end
IndexOK(k, n) == k >= -n /\ k < n
Index(k, n) == IF k < 0 THEN n + k + 1 ELSE k + 1

\* lines 48-52 and 62-66: the masked spectrogram of output channel co
Masked(A, K, bias, co) ==
    Bind(Reshape(Activation(A, K, bias, co), TileSize, TileSize),
         LAMBDA filter_activations :
    Bind(minmax_scaling(filter_activations, 1), LAMBDA activation_mask :
        Multiply(A, activation_mask)))

(***************************************************************************)
(* interpret_activation(S, weights, filter_index, png_name, wav_name).     *)
(* io.imsave, librosa's mel_to_audio and scipy's write are external: the   *)
(* fail_at-th of them (counted from 1 within the call) raises, and the     *)
(* error propagates; fail_at = 0 means that none raises.  `u' is the byte  *)
(* of an undefined float-to-uint8 conversion.  The result is the outcome   *)
(* of the call: whether it returned, what it returned and the files it     *)
(* has written, as <<name, content>> pairs.                                *)
(***************************************************************************)
Audio(A) == <<"mel_to_audio", A>>

\* one external write of `content' under `name'
Emit(st0, name, content, fail_at) ==
    Bind(st0, LAMBDA st :
    IF ~st.ok THEN st
    ELSE IF st.ios + 1 = fail_at
         THEN [st EXCEPT !.ok = FALSE, !.ios = st.ios + 1]
         ELSE [st EXCEPT !.files = st.files \cup {<<name, content>>},
                         !.ios = st.ios + 1])

Raise(st) == [st EXCEPT !.ok = FALSE]

\* lines 47-57: one chosen filter
SingleFilter(A, K, bias, fi, png, wav, fail_at, u, st0) ==
    IF ~IndexOK(fi, OutChannels(K)) THEN Raise(st0)
    ELSE IF ~CanReshape(A, TileSize, TileSize) THEN Raise(st0)
    ELSE IF ~SameShape(A, Reshape(A, TileSize, TileSize)) THEN Raise(st0)
    ELSE Bind(Masked(A, K, bias, Index(fi, OutChannels(K))), LAMBDA masked :
         Bind(IF IsNone(png) THEN st0
              ELSE Emit(st0, Val(png), spectrogram_img(masked, u), fail_at),
              LAMBDA st1 :
         Bind(IF IsNone(wav) THEN st1
              ELSE Emit(st1, Val(wav), Audio(masked), fail_at),
              LAMBDA st2 :
         [st2 EXCEPT !.ret = IF st2.ok THEN masked ELSE st0.ret])))

\* lines 62-72: the body of the loop for filter i (counted from 0)
FilterBody(A, K, bias, i, png, wav, fail_at, u, st0) ==
    IF ~st0.ok THEN st0
    ELSE IF ~CanReshape(A, TileSize, TileSize) THEN Raise(st0)
    ELSE IF ~SameShape(A, Reshape(A, TileSize, TileSize)) THEN Raise(st0)
    ELSE Bind(Masked(A, K, bias, i + 1), LAMBDA masked_s :
         Bind(IF IsNone(png) THEN st0
              ELSE IF ~IndexOK(i, Len(Val(png))) THEN Raise(st0)
              ELSE Emit(st0, Val(png)[Index(i, Len(Val(png)))],
                        spectrogram_img(masked_s, u), fail_at),
              LAMBDA st1 :
         IF IsNone(wav) \/ ~st1.ok THEN st1
         ELSE IF ~IndexOK(i, Len(Val(wav))) THEN Raise(st1)
         ELSE Emit(st1, Val(wav)[Index(i, Len(Val(wav)))],
                   Audio(masked_s), fail_at)))

\* lines 58-72: every filter in turn; `masked' stays the empty list
RECURSIVE AllFilters(_, _, _, _, _, _, _, _, _)
AllFilters(A, K, bias, i, png, wav, fail_at, u, st) ==
    IF i >= OutChannels(K) \/ ~st.ok THEN st
    ELSE Bind(FilterBody(A, K, bias, i, png, wav, fail_at, u, st), LAMBDA st1 :
              AllFilters(A, K, bias, i + 1, png, wav, fail_at, u, st1))

interpret_activation(A, w, fi, png, wav, fail_at, u, written) ==
    LET filter_weight == w[1]
        bias == w[2]
        st0 == [ok |-> TRUE, ret |-> <<>>, files |-> written, ios |-> 0]
    IN  IF InChannels(filter_weight) # 1 THEN Raise(st0)
        ELSE IF Len(bias) # OutChannels(filter_weight) THEN Raise(st0)
        ELSE IF ~IsNone(fi)
             THEN SingleFilter(A, filter_weight, bias, Val(fi), png, wav, fail_at, u, st0)
             ELSE AllFilters(A, filter_weight, bias, 0, png, wav, fail_at, u, st0)

(***************************************************************************)
(* Inputs of the masking engine.                                           *)
(***************************************************************************)
MaxC == 2          \* output channels of the enumerated kernels
MaxFail == 2       \* the external calls that may be the one that raises
NumFilters == 32   \* output channels of the kernel of auralise_test

Const(n, v) == [r \in 1..n |-> [c \in 1..n |-> F(v)]]
Signed(n) == [r \in 1..n |-> [c \in 1..n |-> F(c - 2 * r)]]
TileInputs ==
    {Const(TileSize, 5), Const(TileSize, 0), Signed(TileSize), Const(TileSize - 1, 5)}

\* np.ones((kh, kw, cin, cout))
OnesKernel(kh, kw, cin, cout) ==
    [di \in 1..kh |-> [dj \in 1..kw |-> [ci \in 1..cin |-> [co \in 1..cout |-> 1]]]]
\* all ones for the filters 0, 2, ..; all -1 for the filters 1, 3, .., whose
\* maps are zero after the ReLU on a non-negative input
AltKernel(kh, kw, cin, cout) ==
    [di \in 1..kh |-> [dj \in 1..kw |-> [ci \in 1..cin |->
        [co \in 1..cout |-> IF co % 2 = 1 THEN 1 ELSE -1]]]]
Bias(cout, b) == [co \in 1..cout |-> b]
WeightInputs ==
    UNION {{<<OnesKernel(3, 3, 1, C), Bias(C, 0)>>,
            <<AltKernel(3, 3, 1, C), Bias(C, 0)>>,
            <<OnesKernel(1, 1, 1, C), Bias(C, 0)>>} : C \in 1..MaxC}
    \cup {<<OnesKernel(3, 3, 2, 1), Bias(1, 0)>>,
          <<OnesKernel(3, 3, 1, 1), Bias(2, 0)>>}
\* the weights of auralise_test, and the same kernel with a zero bias
AuraliseWeights ==
    {<<OnesKernel(3, 3, 1, NumFilters), Bias(NumFilters, 1)>>,
     <<OnesKernel(3, 3, 1, NumFilters), Bias(NumFilters, 0)>>}

PngNames(n) == [k \in 1..n |-> <<"png", k>>]
WavNames(n) == [k \in 1..n |-> <<"wav", k>>]

(***************************************************************************)
(* deconvolve_and_interpret(S, weights, png_name, wav_name).  No branch    *)
(* and no shape of this function depends on the value of an element, so a  *)
(* tensor is kept as its shape <<height, width, channels>> (one batch      *)
(* element) and a kernel as its shape <<kh, kw, in channels, out           *)
(* channels>> with the length of its bias.  The result lists, for every    *)
(* tensor operation performed, the stage whose kernel it used and the      *)
(* shapes it read and produced.                                            *)
(***************************************************************************)
\* tf.nn.conv2d(.., strides = (1,1), padding = "SAME") on shapes
ConvOK(x, k) == x[3] = k[3]
ConvShape(x, k) == <<x[1], x[2], k[4]>>
\* tf.keras.layers.MaxPool2D((2,2), strides=2): "valid" padding
PoolShape(x) == <<x[1] \div 2, x[2] \div 2, x[3]>>
\* tf.keras.layers.UpSampling2D(size=(2, 2))
UpShape(x) == <<2 * x[1], 2 * x[2], x[3]>>
\* the kernel with its channel axes left in place
FlipTranspose_Untransposed(k) == k
\* filter_weight[::-1, ::-1, :, :] followed by tf.transpose(.., perm = [0,1,3,2])
FlipTranspose(k) == <<k[1], k[2], k[4], k[3]>>
\* np.squeeze of a tensor of shape (1, h, w, c): the axes of length 1 go
Squeeze(x) == SelectSeq(<<1, x[1], x[2], x[3]>>, LAMBDA d : d # 1)

Step(op, stage, in, kernel, out) ==
    [op |-> op, stage |-> stage, in |-> in, kernel |-> kernel, out |-> out]

\* lines 86-89: the forward stages from stage i on; d = [ok, conv, trace]
RECURSIVE Forward(_, _, _)
Forward(w, i, d) ==
    IF i > Len(w) \/ ~d.ok THEN d
    ELSE LET filter_weight == w[i].kernel
             filter_bias == w[i].bias
         IN  IF ~ConvOK(d.conv, filter_weight) \/ filter_bias # filter_weight[4]
             THEN [d EXCEPT !.ok = FALSE]
             ELSE LET c1 == ConvShape(d.conv, filter_weight)
                      c2 == PoolShape(c1)
                  IN  Forward(w, i + 1,
                        [ok |-> TRUE, conv |-> c2,
                         trace |-> d.trace \o
                            <<Step("conv", i, d.conv, filter_weight, c1),
                              Step("pool", i, c1, <<>>, c2)>>])

\* lines 92-98 and 101-105: upsample, flip and transpose the kernel of
\* `stage', convolve
Inverse(w, stage, d) ==
    IF ~d.ok THEN d
    ELSE LET upsampled == UpShape(d.conv)
             filter_weight == FlipTranspose(w[stage].kernel)
         IN  IF ~ConvOK(upsampled, filter_weight)
             THEN [d EXCEPT !.ok = FALSE,
                            !.trace = @ \o <<Step("upsample", stage, d.conv, <<>>, upsampled)>>]
             ELSE [ok |-> TRUE, conv |-> ConvShape(upsampled, filter_weight),
                   trace |-> d.trace \o
                      <<Step("upsample", stage, d.conv, <<>>, upsampled),
                        Step("deconv", stage, upsampled, filter_weight,
                             ConvShape(upsampled, filter_weight))>>]

deconvolve_and_interpret(x, w, png, wav, fail_at, written) ==
    LET d0 == [ok |-> TRUE, conv |-> x, trace |-> <<>>]
        fwd == Forward(w, 1, d0)
        \* after the loop filter_weight is the kernel of the last stage; with
        \* an empty list it is unbound and line 94 raises
        deconv_1 == IF Len(w) = 0 THEN [fwd EXCEPT !.ok = FALSE]
                    ELSE Inverse(w, Len(w), fwd)
        \* weights[0][0]
        deconv_2 == Inverse(w, 1, deconv_1)
        st0 == [ok |-> deconv_2.ok, ret |-> <<>>, files |-> written, ios |-> 0]
        result == Squeeze(deconv_2.conv)
        st1 == IF IsNone(png) THEN st0
               ELSE Emit(st0, Val(png), <<"spectrogram_img", result>>, fail_at)
        st2 == IF IsNone(wav) THEN st1
               ELSE Emit(st1, Val(wav), Audio(result), fail_at)
    IN  [ok |-> st2.ok, ret |-> IF st2.ok THEN result ELSE <<>>,
         files |-> st2.files, trace |-> deconv_2.trace]

(***************************************************************************)
(* Inputs of the inverter: lists of up to MaxStages kernels with up to     *)
(* MaxCh output channels whose channels are chained from a one-channel     *)
(* input, and lists of up to two kernels with any channel counts.          *)
(***************************************************************************)
MaxStages == 3
MaxCh == 2
KernelSizes == {<<3, 3>>, <<1, 5>>}
StageInputs(k) ==
    {[kernel |-> <<k[1], k[2], cin, cout>>, bias |-> cout] :
        cin \in 1..MaxCh, cout \in 1..MaxCh}
\* every stage reads the channels the stage before it produces
Chained(w) ==
    /\ Len(w) >= 1
    /\ w[1].kernel[3] = 1
    /\ \A i \in 2..Len(w) : w[i].kernel[3] = w[i - 1].kernel[4]
ChainOf(k, couts) ==
    [i \in 1..Len(couts) |->
        [kernel |-> <<k[1], k[2], IF i = 1 THEN 1 ELSE couts[i - 1], couts[i]>>,
         bias |-> couts[i]]]
WeightLists ==
    UNION {UNION {{ChainOf(k, couts) : couts \in [1..n -> 1..MaxCh]} : n \in 1..MaxStages}
              \cup UNION {[1..n -> StageInputs(k)] : n \in 0..2} : k \in KernelSizes}
ShapeInputs == {<<128, 128, 1>>, <<128, 128, 2>>, <<6, 10, 1>>}

(***************************************************************************)
(* make_square(genre, s).  The slices take every row, so s is kept as the  *)
(* sequence of its columns (time frames); frame t of a clip is t.          *)
(***************************************************************************)
\* a slice that takes column b as well
Slice_Inclusive(s, a, b) ==
    LET lo == IF a > Len(s) THEN Len(s) ELSE a
        hi == IF b + 1 > Len(s) THEN Len(s) ELSE b + 1
    IN  SubSeq(s, lo + 1, hi)
\* s[:, a:b] for 0 <= a <= b: the bounds are clipped to the length
Slice(s, a, b) ==
    LET lo == IF a > Len(s) THEN Len(s) ELSE a
        hi == IF b > Len(s) THEN Len(s) ELSE b
    IN  SubSeq(s, lo + 1, hi)

make_square(g, s) ==
    g \o <<Slice(s, 0, 128),
           Slice(s, 128, 2 * 128),
           Slice(s, 2 * 128, 3 * 128),
           Slice(s, 3 * 128, 4 * 128),
           Slice(s, 4 * 128, 5 * 128),
           Slice(s, 5 * 128, 6 * 128),
           Slice(s, 6 * 128, 7 * 128),
           Slice(s, 7 * 128, 8 * 128),
           Slice(s, 8 * 128, 9 * 128),
           Slice(s, 9 * 128, 10 * 128)>>

MaxClips == 2      \* clips added to one genre list
FrameCounts == {0, 127, 128, 1000, 1279, 1280, 1281, 1293}
Clip(n) == [t \in 1..n |-> t - 1]

(***************************************************************************)
(* Inputs of the image codec.                                              *)
(***************************************************************************)
SVals == {-10, 3, 10}
Matrices(h, w, V) == [1..h -> [1..w -> V]]
CodecInputs ==
    UNION {Matrices(h, w, {F(v) : v \in SVals}) : h \in 1..MaxH, w \in 1..2}
RangeInputs == {<<F(-10), F(10)>>, <<F(0), F(1)>>}

Init ==
    /\ call = "none"
    /\ status = "idle"
    /\ S = <<>>
    /\ weights = <<>>
    /\ filter_index = None
    /\ png_name = None
    /\ wav_name = None
    /\ ret = <<>>
    /\ img = <<>>
    /\ s_range = <<>>
    /\ files = {}
    /\ genre = <<>>
    /\ trace = <<>>

\* spectrogram_img(S, name) when io.imsave succeeds
SpectrogramImg ==
    /\ status = "idle"
    /\ \E A \in CodecInputs, u \in UndefCast :
          /\ S' = A
          /\ img' = spectrogram_img(A, u)
    /\ ret' = img'
    /\ files' = files \cup {"test.png"}
    /\ call' = "spectrogram_img"
    /\ status' = "returned"
    /\ UNCHANGED <<weights, filter_index, png_name, wav_name, s_range, genre, trace>>

\* spectrogram_img(S, name) when io.imsave raises: the error propagates
SpectrogramImgFails ==
    /\ status = "idle"
    /\ \E A \in CodecInputs : S' = A
    /\ call' = "spectrogram_img"
    /\ status' = "raised"
    /\ UNCHANGED <<weights, filter_index, png_name, wav_name, ret, img, s_range,
                   files, genre, trace>>

\* revert_to_spectro(img, s_min, s_max) on the image of the last call, with
\* the bounds of the encoded spectrogram or with bounds of another one
RevertToSpectro ==
    /\ call = "spectrogram_img"
    /\ status = "returned"
    /\ \E b \in {<<ArrMin(S), ArrMax(S)>>} \cup RangeInputs :
          /\ s_range' = b
          /\ ret' = revert_to_spectro(img, b[1], b[2])
    /\ call' = "revert_to_spectro"
    /\ UNCHANGED <<status, S, weights, filter_index, png_name, wav_name, img,
                   files, genre, trace>>

\* interpret_activation with a filter index: the names are single names
InterpretOne ==
    /\ status = "idle"
    /\ \E A \in TileInputs, w \in WeightInputs \cup AuraliseWeights, fi \in 0..MaxC,
          png \in {None, Some(<<"png", 1>>)}, wav \in {None, Some(<<"wav", 1>>)},
          fail_at \in 0..MaxFail, u \in UndefCast :
          \E r \in {interpret_activation(A, w, Some(fi), png, wav, fail_at, u, files)} :
              /\ S' = A
              /\ weights' = w
              /\ filter_index' = Some(fi)
              /\ png_name' = png
              /\ wav_name' = wav
              /\ status' = IF r.ok THEN "returned" ELSE "raised"
              /\ ret' = r.ret
              /\ files' = r.files
    /\ call' = "interpret_activation"
    /\ UNCHANGED <<img, s_range, genre, trace>>

\* interpret_activation without a filter index: the names are lists of names
InterpretAll ==
    /\ status = "idle"
    /\ \E A \in TileInputs, w \in WeightInputs,
          png \in {None} \cup {Some(PngNames(n)) : n \in 0..(MaxC + 1)},
          wav \in {None} \cup {Some(WavNames(n)) : n \in {1, MaxC}},
          fail_at \in 0..MaxFail, u \in UndefCast :
          \E r \in {interpret_activation(A, w, None, png, wav, fail_at, u, files)} :
              /\ S' = A
              /\ weights' = w
              /\ filter_index' = None
              /\ png_name' = png
              /\ wav_name' = wav
              /\ status' = IF r.ok THEN "returned" ELSE "raised"
              /\ ret' = r.ret
              /\ files' = r.files
    /\ call' = "interpret_activation"
    /\ UNCHANGED <<img, s_range, genre, trace>>

DeconvolveAndInterpret ==
    /\ status = "idle"
    /\ \E x \in ShapeInputs, w \in WeightLists,
          png \in {None, Some(<<"png", 1>>)}, wav \in {None, Some(<<"wav", 1>>)},
          fail_at \in 0..MaxFail :
          \E r \in {deconvolve_and_interpret(x, w, png, wav, fail_at, files)} :
              /\ S' = x
              /\ weights' = w
              /\ png_name' = png
              /\ wav_name' = wav
              /\ status' = IF r.ok THEN "returned" ELSE "raised"
              /\ ret' = r.ret
              /\ files' = r.files
              /\ trace' = r.trace
    /\ call' = "deconvolve_and_interpret"
    /\ UNCHANGED <<filter_index, img, s_range, genre>>

\* make_square on the spectrogram of one more clip of the genre
MakeSquare ==
    /\ call \in {"none", "make_square"}
    /\ Len(genre) < 10 * MaxClips
    /\ \E n \in FrameCounts :
          /\ S' = Clip(n)
          /\ genre' = make_square(genre, Clip(n))
    /\ call' = "make_square"
    /\ status' = "returned"
    /\ ret' = None
    /\ UNCHANGED <<weights, filter_index, png_name, wav_name, img, s_range,
                   files, trace>>

Next ==
    \/ DeconvolveAndInterpret
    \/ MakeSquare
    \/ InterpretOne
    \/ InterpretAll
    \/ SpectrogramImg
    \/ SpectrogramImgFails
    \/ RevertToSpectro

Spec == Init /\ [][Next]_vars

(***************************************************************************)
(* Properties.                                                             *)
(***************************************************************************)
IsConstant(A) == Cardinality(Elems(A)) = 1
AllElems(A, P(_)) == \A r \in 1..Rows(A) : \A c \in 1..Cols(A) : P(A[r][c])
InterpretedOne ==
    /\ call = "interpret_activation"
    /\ ~IsNone(filter_index)
InterpretedAll ==
    /\ call = "interpret_activation"
    /\ IsNone(filter_index)
\* the tensor operations of the call reached the activation maps
ConvComputed ==
    /\ InChannels(weights[1]) = 1
    /\ Len(weights[2]) = OutChannels(weights[1])
    /\ CanReshape(S, TileSize, TileSize)
SelectedMap ==
    Activation(S, weights[1], weights[2], Index(Val(filter_index), OutChannels(weights[1])))

\* C1: when the activation map of the chosen filter is constant, the call
\* falls back to an all-zero mask: the masked spectrogram it returns is all
\* zeros and holds no NaN and no infinity.
C1_ConstantMapFallsBack ==
    (/\ InterpretedOne
     /\ status = "returned"
     /\ IsConstant(SelectedMap))
    => AllElems(ret, LAMBDA x : IsFinite(x) /\ x = F(0))

\* C2: without a filter index the call returns one masked spectrogram per
\* output channel, element i being S times the [0,1]-scaled map of channel i.
C2_OneMaskedPerFilter ==
    (InterpretedAll /\ status = "returned")
    => /\ Len(ret) = OutChannels(weights[1])
       /\ \A i \in 1..OutChannels(weights[1]) :
             ret[i] = Multiply(S, minmax_scaling(Activation(S, weights[1], weights[2], i), 1))

InverseSteps == SelectSeq(trace, LAMBDA t : t.op = "deconv")
Deconvolved(n) ==
    /\ call = "deconvolve_and_interpret"
    /\ S = <<128, 128, 1>>
    /\ Len(weights) = n
    /\ Chained(weights)

\* C3: for N >= 1 chained stages on a 128x128 input the inverse pass has
\* exactly N steps, which use the kernels of stages N, N-1, ..., 1 in that
\* order, and its result is 128x128 again.
C3_OneInverseStepPerStage ==
    \A n \in 1..MaxStages :
        Deconvolved(n)
        => /\ Len(InverseSteps) = n
           /\ \A i \in 1..n : InverseSteps[i].stage = n + 1 - i
           /\ InverseSteps[n].out[1] = 128
           /\ InverseSteps[n].out[2] = 128

\* C4: with two chained stages of C1 and C2 output channels on a 128x128
\* one-channel input, the forward pass yields 64x64xC1 then 32x32xC2, the
\* inverse pass 64x64xC1 then 128x128x1, every convolution reads as many
\* channels as its kernel takes, and the call returns a 128x128 array
\* (it can only fail in an external write).
C4_TwoStagesRestoreShape ==
    Deconvolved(2)
    => LET C1 == weights[1].kernel[4]
           C2 == weights[2].kernel[4]
       IN  /\ Len(trace) = 8
           /\ trace[2].out = <<64, 64, C1>>
           /\ trace[4].out = <<32, 32, C2>>
           /\ trace[6].out = <<64, 64, C1>>
           /\ trace[8].out = <<128, 128, 1>>
           /\ \A i \in 1..Len(trace) :
                 trace[i].op \in {"conv", "deconv"} => trace[i].in[3] = trace[i].kernel[3]
           /\ status = "returned" => ret = <<128, 128>>
           /\ status = "raised" => ~(IsNone(png_name) /\ IsNone(wav_name))
C4_Witness ==
    /\ Deconvolved(2)
    /\ weights[1].kernel[4] = 2
    /\ weights[2].kernel[4] = 1
    /\ status = "returned"
    /\ ret = <<128, 128>>

\* the scenario of C5: a tile of 5.0 everywhere, the 3x3 all-ones kernel of
\* 32 output channels, zero bias, filter 0
UniformScenario ==
    /\ InterpretedOne
    /\ status = "returned"
    /\ S = Const(TileSize, 5)
    /\ weights = <<OnesKernel(3, 3, 1, NumFilters), Bias(NumFilters, 0)>>
    /\ filter_index = Some(0)
OnBorder(k) == k = 1 \/ k = TileSize

\* C5 as stated: in the scenario the activation map is uniform and the
\* masked output is all zeros.
C5_UniformMapMaskedToZero ==
    UniformScenario
    => /\ IsConstant(SelectedMap)
       /\ AllElems(ret, LAMBDA x : x = F(0))

\* C5 amended: in the scenario the zero padding makes the activation map 20
\* at the four corners, 30 on the rest of the border and 45 inside, so the
\* scaling is not degenerate and the masked output is 0 at the corners, 2 on
\* the rest of the border and 5 inside.
C5_BorderedMap ==
    UniformScenario
    => \A r \in 1..TileSize : \A c \in 1..TileSize :
          /\ SelectedMap[r][c] =
                IF OnBorder(r) /\ OnBorder(c) THEN F(20)
                ELSE IF OnBorder(r) \/ OnBorder(c) THEN F(30) ELSE F(45)
          /\ ret[r][c] =
                IF OnBorder(r) /\ OnBorder(c) THEN F(0)
                ELSE IF OnBorder(r) \/ OnBorder(c) THEN F(2) ELSE F(5)
C5_Witness ==
    /\ UniformScenario
    /\ ret[1][1] = F(0)
    /\ ret[1][2] = F(2)
    /\ ret[2][2] = F(5)

\* C6: without a filter index, a list of image or audio names whose length
\* differs from the number of output channels makes the call fail.
C6_NameCountMismatchFails ==
    (/\ InterpretedAll
     /\ ConvComputed
     /\ \/ ~IsNone(png_name) /\ Len(Val(png_name)) # OutChannels(weights[1])
        \/ ~IsNone(wav_name) /\ Len(Val(wav_name)) # OutChannels(weights[1]))
    => status = "raised"

\* C7: a call of interpret_activation that fails leaves no file written.
C7_NoFileAfterFailure ==
    (call = "interpret_activation" /\ status = "raised") => files = {}

\* C8: for a non-constant spectrogram S of H rows, the image has the shape
\* of S and pixels in 0..255; the pixel at row r is that of the element of
\* S at row H-1-r (rows counted from 0), 255 less its value scaled to
\* 0..255 and truncated; the minimum of S gives 255 and the maximum 0.
C8_ImageOfSpectrogram ==
    (/\ call = "spectrogram_img"
     /\ status = "returned"
     /\ ~IsConstant(S))
    => LET H == Rows(S)
           lo == ArrMin(S)[1]
           hi == ArrMax(S)[1]
       IN  /\ Rows(img) = H
           /\ \A r \in 1..H :
                 /\ Len(img[r]) = Cols(S)
                 /\ \A c \in 1..Cols(S) :
                       LET x == S[H + 1 - r][c][1]
                       IN  /\ img[r][c] \in 0..255
                           /\ x = lo => img[r][c] = 255
                           /\ x = hi => img[r][c] = 0
                           /\ img[r][c] = 255 - ((255 * (x - lo)) \div (hi - lo))
C8_Witness ==
    /\ call = "spectrogram_img"
    /\ status = "returned"
    /\ S = << <<F(-10), F(3)>>, <<F(10), F(10)>> >>
    /\ img = << <<0, 0>>, <<255, 90>> >>

AbsF(x) == IF x[1] < 0 THEN Neg(x) ELSE x

\* C9: for a non-constant S, reverting the image of S with the minimum and
\* the maximum of S gives an array of the shape of S, in the row order of S,
\* each element within (max - min) / 255 of the element of S.
C9_RoundTripWithinQuantum ==
    (/\ call = "revert_to_spectro"
     /\ ~IsConstant(S)
     /\ s_range = <<ArrMin(S), ArrMax(S)>>)
    => /\ Rows(ret) = Rows(S)
       /\ \A r \in 1..Rows(S) :
             /\ Len(ret[r]) = Cols(S)
             /\ \A c \in 1..Cols(S) :
                   Leq(AbsF(Sub(ret[r][c], S[r][c])),
                       Div(Sub(ArrMax(S), ArrMin(S)), F(255)))
C9_Witness ==
    /\ call = "revert_to_spectro"
    /\ S = << <<F(-10), F(3)>>, <<F(10), F(10)>> >>
    /\ s_range = <<F(-10), F(10)>>
    /\ ret = << <<F(-10), <<50, 17>> >>, <<F(10), F(10)>> >>

RECURSIVE Concat(_)
Concat(q) == IF q = <<>> THEN <<>> ELSE Head(q) \o Concat(Tail(q))

\* C10: make_square on a spectrogram of 1280 frames appends exactly 10
\* tiles to the genre list; tile k (k = 0..9) holds frames 128k to 128k+127
\* in order, so the tiles are 128 wide and, put end to end, are the time
\* axis itself: no frame is left out and none is taken twice.
C10_TenTilesPartition ==
    [][(call' = "make_square" /\ Len(S') = 1280)
       => /\ Len(genre') = Len(genre) + 10
          /\ SubSeq(genre', 1, Len(genre)) = genre
          /\ \A k \in 0..9 :
                /\ Len(genre'[Len(genre) + k + 1]) = 128
                /\ \A t \in 0..127 : genre'[Len(genre) + k + 1][t + 1] = 128 * k + t
          /\ Concat(SubSeq(genre', Len(genre) + 1, Len(genre) + 10)) = S']_vars
C10_Witness ==
    /\ call = "make_square"
    /\ Len(S) = 1280
    /\ Len(genre) = 20
    /\ genre[20][128] = 1279
    /\ genre[11][1] = 0

====
